---- MODULE Spec2Model ----
(***************************************************************************)
(* Model of the elements module of nuclear-scripts                         *)
(* (src/src/elements/mod.rs): the element lookup over elements.txt, the    *)
(* Isotope constructor from_nucleons, the get_upper_isobar transform and   *)
(* the parity selection of the pairing term of binding_energy.             *)
(*                                                                         *)
(* Strings are sequences of character codes.  i32 arithmetic keeps its     *)
(* width: an overflowing operation panics when the build has overflow      *)
(* checks (debug profile) and wraps when it has not (release profile).     *)
(* Floating point magnitudes are not modelled: the pairing term is kept as *)
(* the selected branch and the sign applied to delta(A).                   *)
(***************************************************************************)
EXTENDS Integers, Sequences, FiniteSets

VARIABLES
    elements_txt,     \* which of the Files is at elements_path
    overflow_checks,  \* TRUE: arithmetic overflow panics; FALSE: it wraps
    isotopes,         \* the Isotope values that exist
    last,             \* the last call: [op, arg, ret]
    panicked          \* TRUE once a panic has unwound the program

vars == <<elements_txt, overflow_checks, isotopes, last, panicked>>

---------------------------------------------------------------------------
(* Bounds of the model *)

\* number of Isotope values kept alive at once
MaxIsotopes == 3
\* small nucleon counts: A is drawn from 0..SmallMax, Z from 0..SmallMax-1
SmallMax == 3
\* width of the neighbourhood explored around i32::MIN
Edge == 1

---------------------------------------------------------------------------
(* Program constants *)

\* A, Z, N are i32
MaxI32 == 2147483647
MinI32 == -MaxI32 - 1
\* line.split(',')
Comma == 44
\* num_protons > 118
MaxProtons == 118
\* collection.len() < 118
RequiredLines == 118

---------------------------------------------------------------------------
(* i32 arithmetic *)

\* a - b in i32: [overflow, value], value being the wrapped result
Sub32(a, b) ==
    IF b >= 0
      THEN IF a < MinI32 + b
             THEN [overflow |-> TRUE, value |-> MaxI32 - ((b - 1) - (a - MinI32))]
             ELSE [overflow |-> FALSE, value |-> a - b]
      ELSE IF a > MaxI32 + b
             THEN [overflow |-> TRUE, value |-> MinI32 + ((a - (MaxI32 + b)) - 1)]
             ELSE [overflow |-> FALSE, value |-> a - b]

\* a + b in i32: [overflow, value]
Add32(a, b) ==
    IF b >= 0
      THEN IF a > MaxI32 - b
             THEN [overflow |-> TRUE, value |-> MinI32 + ((a - (MaxI32 - b)) - 1)]
             ELSE [overflow |-> FALSE, value |-> a + b]
      ELSE IF a < MinI32 - b
             THEN [overflow |-> TRUE, value |-> MaxI32 - ((MinI32 - b) - a - 1)]
             ELSE [overflow |-> FALSE, value |-> a + b]

\* a % b in i32 for b > 0: the remainder truncates toward zero, so it has the
\* sign of the dividend (-3 % 2 = -1)
Rem32(a, b) ==
    IF a >= 0 THEN a % b ELSE 0 - ((((0 - (a + 1)) % b) + 1) % b)

---------------------------------------------------------------------------
(* The reference table *)

Name(z) == <<65 + (z % 26), 97 + (z \div 26)>>
Symbol(z) == <<97 + (z \div 26), 65 + (z % 26)>>
Record(z) == Name(z) \o <<Comma>> \o Symbol(z)

\* the table as shipped: one "ElementName,Symbol" line per element
Table == [i \in 1..RequiredLines |-> Record(i)]

\* a line without a comma, a line with three fields, a line with an empty
\* name and a line with an empty symbol
NameOnly(z) == Name(z)
ThreeFields(z) == Record(z) \o <<Comma>> \o Name(z)
EmptyName(z) == <<Comma>> \o Symbol(z)
EmptySymbol(z) == Name(z) \o <<Comma>>

OnDisk(ls) == [exists |-> TRUE, utf8 |-> TRUE, lines |-> ls]

\* the states elements.txt can be in when a lookup runs
WellFormedFile == OnDisk(Table)
MissingFile == [exists |-> FALSE, utf8 |-> TRUE, lines |-> <<>>]
BinaryFile == [exists |-> TRUE, utf8 |-> FALSE, lines |-> Table]
EmptyFile == OnDisk(<<>>)
TruncatedFile == OnDisk(SubSeq(Table, 1, RequiredLines - 1))
LongFile ==
    OnDisk([Table EXCEPT ![1] = EmptyName(1), ![2] = ThreeFields(2),
                         ![MaxProtons - 1] = EmptySymbol(MaxProtons - 1),
                         ![MaxProtons] = NameOnly(MaxProtons)]
           \o <<Record(MaxProtons + 1)>>)
BlankFile == OnDisk([i \in 1..RequiredLines |-> <<>>])

Files == {"well-formed", "missing", "binary", "empty", "truncated", "long",
          "blank"}

\* the file of that name: [exists, utf8, lines]
disk(name) ==
    CASE name = "well-formed" -> WellFormedFile
      [] name = "missing" -> MissingFile
      [] name = "binary" -> BinaryFile
      [] name = "empty" -> EmptyFile
      [] name = "truncated" -> TruncatedFile
      [] name = "long" -> LongFile
      [] name = "blank" -> BlankFile

---------------------------------------------------------------------------
(* get_element_from_protons *)

\* Result<(String, String), Error>, and the panic a call can end in instead
Ok(element, symbol) == [tag |-> "Ok", element |-> element, symbol |-> symbol]
Err(kind, msg) == [tag |-> "Err", kind |-> kind, msg |-> msg]
Panic(msg) == [tag |-> "panic", msg |-> msg]

OutOfRangeMsg == "Proton Number out of Range 1-118"
MalformedMsg == "Malformed 'elements.txt' file (should be 118 lines)"
IndexMsg == "index out of bounds"

\* splitting on a delimiter the lines do not contain
split_on_other(line) == <<line>>

\* str::split(','): the fields between the commas; a string without a comma
\* (the empty string included) is one field
RECURSIVE split(_)
split(line) ==
    IF \A i \in 1..Len(line) : line[i] # Comma
      THEN <<line>>
      ELSE LET i == CHOOSE k \in 1..Len(line) :
                        /\ line[k] = Comma
                        /\ \A j \in 1..(k - 1) : line[j] # Comma
           IN  <<SubSeq(line, 1, i - 1)>> \o split(SubSeq(line, i + 1, Len(line)))

\* the k-th parts.next().unwrap_or("")
next_or_empty(parts, k) == IF k <= Len(parts) THEN parts[k] ELSE <<>>

\* File::open(elements_path)?
open(f) ==
    IF f.exists THEN [tag |-> "Ok"]
    ELSE Err("NotFound", "No such file or directory")

\* reader.lines().collect::<Result<_, _>>()?
read_lines(f) ==
    IF f.utf8 THEN [tag |-> "Ok", collection |-> f.lines]
    ELSE Err("InvalidData", "stream did not contain valid UTF-8")

\* the range test with its upper limit off by one (num_protons > 119)
out_of_range_off_by_one(num_protons) ==
    num_protons < 1 \/ num_protons > MaxProtons + 1

\* the range test with its upper half left out
out_of_range_lower_only(num_protons) == num_protons < 1

\* num_protons < 1 || num_protons > 118
out_of_range(num_protons) == num_protons < 1 \/ num_protons > MaxProtons

\* the length test accepting a table one line short (collection.len() < 117)
shortened_off_by_one(collection) == Len(collection) < RequiredLines - 1

\* collection.len() < 118
shortened(collection) == Len(collection) < RequiredLines

\* (num_protons - 1) as usize is an index of collection; indexing past the
\* end panics
in_bounds(collection, num_protons) ==
    num_protons - 1 >= 0 /\ num_protons - 1 < Len(collection)

\* &collection[(num_protons - 1) as usize], the sequence being 1-based here
line_of(collection, num_protons) == collection[(num_protons - 1) + 1]

get_element_from_protons(num_protons, f) ==
    IF out_of_range(num_protons)
      THEN Err("Other", OutOfRangeMsg)
    ELSE IF open(f).tag = "Err" THEN open(f)
    ELSE IF read_lines(f).tag = "Err" THEN read_lines(f)
    ELSE LET collection == read_lines(f).collection IN
         IF shortened(collection)
           THEN Err("Other", MalformedMsg)
         ELSE IF ~in_bounds(collection, num_protons) THEN Panic(IndexMsg)
         ELSE LET line == line_of(collection, num_protons)
                  parts == split(line)
              IN  Ok(next_or_empty(parts, 1), next_or_empty(parts, 2))

---------------------------------------------------------------------------
(* Isotope *)

Isotope(element, symbol, A, Z, N) ==
    [element |-> element, symbol |-> symbol, A |-> A, Z |-> Z, N |-> N]

\* a call that returns Self
Value(iso) == [tag |-> "value", iso |-> iso]

TodoMsg == "not yet implemented"
SubOverflowMsg == "attempt to subtract with overflow"
AddOverflowMsg == "attempt to add with overflow"

\* let N = A - Z
neutrons(A, Z) == Sub32(A, Z)

\* Isotope::from_nucleons(A, Z), reading file f in a build with or without
\* overflow checks
from_nucleons(A, Z, f, checks) ==
    LET r == get_element_from_protons(Z, f) IN
    IF r.tag = "panic" THEN r
    ELSE IF r.tag = "Err" THEN Panic(TodoMsg)
    ELSE LET N == neutrons(A, Z) IN
         IF N.overflow /\ checks THEN Panic(SubOverflowMsg)
         ELSE Value(Isotope(r.element, r.symbol, A, Z, N.value))

\* self.Z + 1
upper_protons(Z) == Add32(Z, 1)

\* Isotope::get_upper_isobar(&self)
get_upper_isobar(self, f, checks) ==
    LET Z == upper_protons(self.Z) IN
    IF Z.overflow /\ checks THEN Panic(AddOverflowMsg)
    ELSE from_nucleons(self.A, Z.value, f, checks)

\* the oddness test written as n % 2 == 1, which a negative odd n fails
is_odd_positive_only(n) == Rem32(n, 2) = 1

\* Z % 2 != 0, N % 2 != 0
is_odd(n) == Rem32(n, 2) # 0

\* the selection with || for && in its third test
pairing_loose_third(Z, N) ==
    IF Rem32(Z, 2) = 0 /\ Rem32(N, 2) = 0 THEN [branch |-> 1, factor |-> 1]
    ELSE IF Rem32(Z, 2) # 0 /\ Rem32(N, 2) = 0 THEN [branch |-> 2, factor |-> 0]
    ELSE IF Rem32(Z, 2) # 0 \/ Rem32(N, 2) # 0 THEN [branch |-> 3, factor |-> -1]
    ELSE [branch |-> 4, factor |-> 0]

\* the pairing selection of binding_energy: the branch taken (1..4, in source
\* order) and the factor it applies to delta
pairing(Z, N) ==
    IF ~is_odd(Z) /\ ~is_odd(N) THEN [branch |-> 1, factor |-> 1]
    ELSE IF is_odd(Z) /\ ~is_odd(N) THEN [branch |-> 2, factor |-> 0]
    ELSE IF is_odd(Z) /\ is_odd(N) THEN [branch |-> 3, factor |-> -1]
    ELSE [branch |-> 4, factor |-> 0]

\* Isotope::binding_energy(&self): the pairing term is factor * delta(A)
binding_energy(self) ==
    [A |-> self.A, branch |-> pairing(self.Z, self.N).branch,
     factor |-> pairing(self.Z, self.N).factor]

---------------------------------------------------------------------------
(* The calls a user of the module makes *)

\* arguments: small nucleon counts and the largest proton count, and the
\* values next to i32::MIN, where A - Z overflows
AInputs == (0..SmallMax) \cup {MaxProtons}
AEdgeInputs == MinI32..(MinI32 + Edge)
ZInputs == (0..(SmallMax - 1)) \cup ((MaxProtons - 1)..(MaxProtons + 1))

NoCall == [op |-> "none", arg |-> <<>>, ret |-> <<>>]

Init ==
    /\ elements_txt \in Files
    /\ overflow_checks \in BOOLEAN
    /\ isotopes = {}
    /\ last = NoCall
    /\ panicked = FALSE

\* get_element_from_protons(Z)
CallLookup(Z) ==
    /\ ~panicked
    /\ last' = [op |-> "get_element_from_protons", arg |-> [Z |-> Z],
                ret |-> get_element_from_protons(Z, disk(elements_txt))]
    /\ panicked' = (get_element_from_protons(Z, disk(elements_txt)).tag = "panic")
    /\ UNCHANGED <<elements_txt, overflow_checks, isotopes>>

\* Isotope::from_nucleons(A, Z): the caller keeps the Isotope it constructed
\* last (and, below, the isobars derived from it); a panic ends the program
CallFromNucleons(A, Z) ==
    LET ret == from_nucleons(A, Z, disk(elements_txt), overflow_checks) IN
    /\ ~panicked
    /\ last' = [op |-> "from_nucleons", arg |-> [A |-> A, Z |-> Z], ret |-> ret]
    /\ isotopes' = IF ret.tag = "value" THEN {ret.iso} ELSE isotopes
    /\ panicked' = (ret.tag = "panic")
    /\ UNCHANGED <<elements_txt, overflow_checks>>

\* x.get_upper_isobar(): the receiver is borrowed and stays as it is
CallGetUpperIsobar(x) ==
    LET ret == get_upper_isobar(x, disk(elements_txt), overflow_checks) IN
    /\ ~panicked
    /\ x \in isotopes
    /\ last' = [op |-> "get_upper_isobar", arg |-> [self |-> x], ret |-> ret]
    /\ IF ret.tag = "value"
         THEN /\ Cardinality(isotopes \cup {ret.iso}) <= MaxIsotopes
              /\ isotopes' = isotopes \cup {ret.iso}
         ELSE isotopes' = isotopes
    /\ panicked' = (ret.tag = "panic")
    /\ UNCHANGED <<elements_txt, overflow_checks>>

\* x.binding_energy()
CallBindingEnergy(x) ==
    /\ ~panicked
    /\ x \in isotopes
    /\ last' = [op |-> "binding_energy", arg |-> [self |-> x],
                ret |-> binding_energy(x)]
    /\ UNCHANGED <<elements_txt, overflow_checks, isotopes, panicked>>

Next ==
    \/ \E Z \in ZInputs : CallLookup(Z)
    \/ \E A \in AInputs, Z \in ZInputs : CallFromNucleons(A, Z)
    \/ \E A \in AEdgeInputs, Z \in ZInputs : CallFromNucleons(A, Z)
    \/ \E x \in isotopes : CallGetUpperIsobar(x)
    \/ \E x \in isotopes : CallBindingEnergy(x)

Spec == Init /\ [][Next]_vars

---------------------------------------------------------------------------
(* binding_energy as a function of the fields alone: the Isotope is any      *)
(* value of the struct, its parities and signs unconstrained                 *)

Fields == (-SmallMax)..SmallMax

InitPairing ==
    /\ elements_txt = "well-formed"
    /\ overflow_checks = FALSE
    /\ isotopes \in {{Isotope(Name(1), Symbol(1), A, Z, N)} :
                        <<A, Z, N>> \in (1..SmallMax) \X Fields \X Fields}
    /\ last = NoCall
    /\ panicked = FALSE

NextPairing == \E x \in isotopes : CallBindingEnergy(x)

SpecPairing == InitPairing /\ [][NextPairing]_vars

---------------------------------------------------------------------------
(* Vocabulary of the claims, defined without the operators above *)

Looked == last.op = "get_element_from_protons"
Constructed == last.op = "from_nucleons"
Transformed == last.op = "get_upper_isobar"
Evaluated == last.op = "binding_energy"

\* the reference table as it is on disk
table == disk(elements_txt)

Even(n) == n % 2 = 0
Odd(n) == n % 2 = 1

\* a = z + n over the integers, for i32 values a, z, n
IsSum(a, z, n) ==
    IF z >= 0 /\ n > MaxI32 - z THEN FALSE
    ELSE IF z < 0 /\ n < MinI32 - z THEN FALSE
    ELSE a = z + n

\* m = n - 1 over the integers, for i32 values m, n
IsPredecessor(m, n) == n > MinI32 /\ m = n - 1

\* the table can be opened and read and has at least 118 lines
Usable(f) == f.exists /\ f.utf8 /\ Len(f.lines) >= 118

\* the positions of the commas of a line, the number of its fields and its
\* k-th comma-separated field ("" when it has fewer than k fields)
Commas(line) == {i \in 1..Len(line) : line[i] = 44}
FieldCount(line) == Cardinality(Commas(line)) + 1
NthComma(line, k) ==
    CHOOSE c \in Commas(line) : Cardinality({d \in Commas(line) : d < c}) = k - 1
FieldOf(line, k) ==
    IF k > FieldCount(line) THEN <<>>
    ELSE SubSeq(line,
                IF k = 1 THEN 1 ELSE NthComma(line, k - 1) + 1,
                IF k = FieldCount(line) THEN Len(line) ELSE NthComma(line, k) - 1)

\* a well-formed two-field record: a name, one comma, a symbol
TwoFieldRecord(line) ==
    FieldCount(line) = 2 /\ FieldOf(line, 1) # <<>> /\ FieldOf(line, 2) # <<>>

\* A = Z + N, 1 <= Z <= 118 and N >= 0
ValidIsotope(x) == IsSum(x.A, x.Z, x.N) /\ x.Z >= 1 /\ x.Z <= 118 /\ x.N >= 0

---------------------------------------------------------------------------
(* The claims *)

\* C1: from_nucleons(A, Z) with A < Z (Z resolvable) fails with an
\* InvalidNucleonCounts error; it never returns an Isotope with N < 0 or
\* A <= 0, and binding_energy is never evaluated on such a value.
C1_InvalidNucleonCountsRejected ==
    /\ (Constructed /\ last.arg.A < last.arg.Z /\ last.arg.Z \in 1..118
            /\ Usable(table))
          => (last.ret.tag = "Err" /\ last.ret.kind = "InvalidNucleonCounts")
    /\ (Constructed /\ last.ret.tag = "value")
          => (last.ret.iso.N >= 0 /\ last.ret.iso.A > 0)
    /\ Evaluated => (last.arg.self.N >= 0 /\ last.arg.self.A > 0)

\* C2: a from_nucleons call whose element lookup fails (Z outside 1..118,
\* table missing, unreadable or shorter than 118 lines) returns an explicit
\* error to its caller and does not end the program.
C2_LookupFailureReturned ==
    (Constructed /\ (last.arg.Z \notin 1..118 \/ ~Usable(table)))
        => (last.ret.tag = "Err" /\ ~panicked)

\* C3: for Z < 1 or Z > 118, get_element_from_protons(Z) returns the
\* out-of-range error and never a (name, symbol) pair, and returns the same
\* whatever state the table is in (well-formed, truncated, missing, ...).
C3_OutOfRangeBeforeTable ==
    (Looked /\ (last.arg.Z < 1 \/ last.arg.Z > 118))
        => /\ last.ret = [tag |-> "Err", kind |-> "Other",
                          msg |-> "Proton Number out of Range 1-118"]
           /\ \A name \in Files :
                 get_element_from_protons(last.arg.Z, disk(name)) = last.ret
           /\ ~panicked

\* C3 witness: Z = 119 is refused although the table on disk has a line 119.
C3_Witness ==
    /\ Looked /\ last.arg.Z = 119 /\ last.ret.tag = "Err"
    /\ Len(table.lines) >= 119 /\ table.exists /\ table.utf8

\* C4: every Isotope that exists after any sequence of from_nucleons and
\* get_upper_isobar calls has A = Z + N.
C4_MassNumberIsSum == \A x \in isotopes : IsSum(x.A, x.Z, x.N)

\* C5: when x.get_upper_isobar() returns y, then y.A = x.A, y.Z = x.Z + 1,
\* y.N = x.N - 1, and x still exists unchanged.
C5_UpperIsobarFields ==
    (Transformed /\ last.ret.tag = "value")
        => LET x == last.arg.self
               y == last.ret.iso
           IN  /\ y.A = x.A
               /\ y.Z = x.Z + 1
               /\ IsPredecessor(y.N, x.N)
               /\ x \in isotopes /\ y \in isotopes

\* C6: the factor binding_energy applies to delta(A) depends only on the
\* parities of Z and N: +1 even/even, 0 odd/even, -1 odd/odd, 0 even/odd,
\* for negative Z and N too; so odd-odd is the negation of even-even.
C6_PairingByParity ==
    Evaluated
        => LET Z == last.arg.self.Z
               N == last.arg.self.N
           IN  /\ (Even(Z) /\ Even(N)) => last.ret.factor = 1
               /\ (Odd(Z) /\ Even(N)) => last.ret.factor = 0
               /\ (Odd(Z) /\ Odd(N)) => last.ret.factor = -1
               /\ (Even(Z) /\ Odd(N)) => last.ret.factor = 0
               /\ last.ret.A = last.arg.self.A

\* C6 witness: an odd-odd evaluation with negative Z and negative N.
C6_Witness ==
    /\ Evaluated /\ last.ret.factor = -1
    /\ last.arg.self.Z < 0 /\ last.arg.self.N < 0

C8_UnusableTableIsError ==
    (Looked /\ last.arg.Z \in 1..118 /\ ~Usable(table))
        => /\ last.ret.tag = "Err"
           /\ last.ret.msg # "Proton Number out of Range 1-118"
           /\ ~table.exists => last.ret.kind = "NotFound"
           /\ (table.exists /\ ~table.utf8)
                 => last.ret.kind = "InvalidData"
           /\ (table.exists /\ table.utf8)
                 => last.ret.msg
                      = "Malformed 'elements.txt' file (should be 118 lines)"
           /\ ~panicked

\* C8 witness: the truncated table holds line Z-1 and the lookup still fails.
C8_Witness ==
    /\ Looked /\ last.ret.tag = "Err" /\ last.arg.Z \in 1..118
    /\ table.exists /\ table.utf8
    /\ Len(table.lines) < 118
    /\ last.arg.Z <= Len(table.lines)

\* C9 as stated: binding_energy never takes its final branch on a valid
\* isotope (A = Z + N, 1 <= Z <= 118, N >= 0).
C9_FinalBranchUnreachable ==
    (Evaluated /\ ValidIsotope(last.arg.self)) => last.ret.branch # 4

\* C9 amended: binding_energy takes its final branch exactly on the isotopes
\* with even Z and odd N, valid ones (even Z, odd A) included, and the branch
\* contributes a pairing term of 0.
C9_FinalBranchIsEvenOdd ==
    Evaluated
        => /\ last.ret.branch = 4
                 <=> (Even(last.arg.self.Z) /\ Odd(last.arg.self.N))
           /\ last.ret.branch = 4 => last.ret.factor = 0

\* C9 witness: a valid isotope on which the final branch was taken.
C9_Witness ==
    Evaluated /\ ValidIsotope(last.arg.self) /\ last.ret.branch = 4

====
